---- MODULE Spec2Model ----
(***************************************************************************)
(* The agent execution engine of OpenManus: BaseAgent.run with its scoped  *)
(* state transition (app/agent/base.py), ReActAgent.step                   *)
(* (app/agent/react.py) and the think/act helpers of                       *)
(* ToolCallContextHelper (app/agent/toolcall.py).                          *)
(*                                                                         *)
(* Texts are sequences of units (a unit stands for a run of characters):   *)
(* f-string formatting is concatenation, slicing is SubSeq, the empty      *)
(* string is <<>>.  One coroutine drives the agent; the positions it       *)
(* suspends at (the model call, a tool's execute, the sandbox cleanup) are *)
(* values of pc, and the code between two suspensions is one action.       *)
(***************************************************************************)
EXTENDS Integers, Sequences, FiniteSets, TLC

\* ---------------------------------------------------------------- bounds
MaxSteps == 2
MaxCalls == 2
MaxRuns == 2
MaxBatch == 2
MaxObserve == 4
MaxMem == 4
MaxMcpOps == 3

\* ------------------------------------------------------- program constants
DefaultMaxObserve == 10000
duplicate_threshold == 2

None == <<"None">>
NoId == <<>>

AgentStates == {"IDLE", "RUNNING", "FINISHED", "ERROR"}
ToolChoices == {"none", "auto", "required"}

\* event names
LIFECYCLE_START == "agent:lifecycle:start"
LIFECYCLE_COMPLETE == "agent:lifecycle:complete"
STATE_CHANGE == "agent:state:change"
STATE_STUCK_DETECTED == "agent:state:stuck:detected"
STATE_STUCK_HANDLED == "agent:state:stuck:handled"
STEP_MAX_REACHED == "agent:step:max_reached"
MEMORY_ADDED == "agent:memory:added"
STEP_START == "agent:lifecycle:step:start"
STEP_COMPLETE == "agent:lifecycle:step:complete"
STEP_ERROR == "agent:lifecycle:step:error"
THINK_START == "agent:lifecycle:step:think:start"
THINK_COMPLETE == "agent:lifecycle:step:think:complete"
THINK_TOKEN_COUNT == "agent:lifecycle:step:think:token:count"
ACT_START == "agent:lifecycle:step:act:start"
ACT_COMPLETE == "agent:lifecycle:step:act:complete"
ACT_TOKEN_COUNT == "agent:lifecycle:step:act:token:count"
TOOL_START == "agent:tool:start"
TOOL_COMPLETE == "agent:tool:complete"
TOOL_SELECTED == "agent:tool:selected"
TOOL_EXECUTE_START == "agent:tool:execute:start"
TOOL_EXECUTE_COMPLETE == "agent:tool:execute:complete"

\* fixed texts
TOOL_CALL_REQUIRED == <<"Tool calls required but none provided">>
THINKING_COMPLETE == <<"Thinking complete - no action needed">>
NO_CONTENT == <<"No content or commands to execute">>
NO_STEPS == <<"No steps executed">>
TERMINATED_NOTICE == <<"Terminated: Reached max steps">>
TOKEN_LIMIT_TEXT == <<"Maximum token limit reached, cannot continue execution: ", "limit">>
NO_RESPONSE_TEXT == <<"Error encountered while processing: ", "No response received from the LLM">>
STUCK_PROMPT == <<"Observed duplicate responses. Consider new strategies and avoid repeating ineffective paths already attempted.">>
NEXT_STEP_PROMPT == <<"[Execution Check]">>
INVALID_COMMAND == <<"Error: Invalid command format">>

VARIABLES
  state,             \* BaseAgent.state
  current_step,      \* BaseAgent.current_step
  max_steps,         \* BaseAgent.max_steps
  memory,            \* BaseAgent.memory.messages
  next_step_prompt,  \* BaseAgent.next_step_prompt
  should_terminate,  \* the pending-termination flag read by ReActAgent.step
  queue,             \* EventQueue.queue, the events put by emit
  tool_choices,      \* ToolCallContextHelper.tool_choices
  tool_calls,        \* ToolCallContextHelper.tool_calls
  max_observe,       \* ToolCallContextHelper.max_observe
  available_tools,   \* names in ToolCallContextHelper.available_tools.tool_map
  pc,                \* where the coroutine of run is suspended
  previous_state,    \* the local previous_state of state_context
  results,           \* the local results of run
  act_results,       \* the local results of execute_tool
  cmd_idx,           \* position of the for loop of execute_tool
  outcome,           \* how the last invocation of run ended
  returned,          \* the value the last run returned
  llm_calls,         \* number of model calls made
  runs,              \* number of run invocations accepted
  rejected,          \* some invocation of run was rejected
  act_base,          \* Len(memory) when the current Act began
  executed,          \* the calls handed to a tool's execute, in order
  exception,         \* the exception that left the last run, if one did
  last_llm,          \* how the last model call ended
  observations,      \* the observations of the current Act before truncation
  mcp_clients,       \* MCPToolCallExtension.clients, one record per client
  proxies,           \* the remote tool proxies held by available_tools
  closed,            \* the sessions whose exit stack has been closed
  mcp_ops,           \* number of registry operations made
  last_op,           \* the last registry operation and what it returned
  handlers,          \* EventQueue._handlers, in registration order
  ev_task,           \* EventQueue._task, the consumption loop
  ev_flag,           \* EventQueue._event
  ev_cur,            \* the event and handler the loop is awaiting, if any
  delivered,         \* the handler invocations begun and ended, in order
  ev_seq,            \* number of events put
  ev_taken,          \* number of events taken off the queue by the loop
  cmd_result,        \* the local result of execute_tool, not yet recorded
  class_tools,       \* names in the class attribute ToolCallContextHelper.available_tools
  own_registry,      \* the helper has an available_tools attribute of its own
  host_clients,      \* MCPToolCallSandboxHost.clients, one record per client
  host_op            \* the last operation on the sandbox host and how it ended

vars == <<state, current_step, max_steps, memory, next_step_prompt,
          should_terminate, queue, tool_choices, tool_calls, max_observe,
          available_tools, pc, previous_state, results, act_results, cmd_idx,
          outcome, returned, llm_calls, runs, rejected, act_base, executed,
          exception, last_llm, observations, mcp_clients, proxies, closed,
          mcp_ops, last_op, handlers, ev_task, ev_flag, ev_cur, delivered,
          ev_seq, ev_taken, cmd_result, class_tools, own_registry,
          host_clients, host_op>>

settings == <<max_steps, tool_choices, max_observe>>
mcpvars == <<mcp_clients, proxies, closed, mcp_ops, last_op, class_tools,
            own_registry, host_clients, host_op>>
evvars == <<handlers, ev_task, ev_flag, ev_cur, delivered, ev_seq, ev_taken>>
config == <<settings, available_tools, mcpvars, evvars, cmd_result>>

\* ------------------------------------------------------------------ data
Msg(role, content, id, calls) ==
  [role |-> role, content |-> content, tool_call_id |-> id, tool_calls |-> calls]

user_message(content) == Msg("user", content, NoId, <<>>)
system_message(content) == Msg("system", content, NoId, <<>>)
assistant_message(content) == Msg("assistant", content, NoId, <<>>)
from_tool_calls(content, calls) == Msg("assistant", content, NoId, calls)
tool_message(content, id) == Msg("tool", content, id, <<>>)

EventItem(name, data, step) == [name |-> name, data |-> data, step |-> step]

\* no event is being handled
NoEvent == [name |-> "", data |-> <<>>, step |-> 0, idx |-> 0]

\* an event put while no consumption loop runs is lost
EmitUnlessIdle(q, name, data, step) ==
  IF ev_task = "running" THEN Append(q, EventItem(name, data, step)) ELSE q

\* BaseAgent.emit followed by EventQueue.put (enable_event_queue is True)
Emit(q, name, data, step) == Append(q, EventItem(name, data, step))

RECURSIVE EmitAll(_, _, _)
EmitAll(q, names, step) ==
  IF names = <<>> THEN q
  ELSE EmitAll(Emit(q, Head(names), <<>>, step), Tail(names), step)

\* "sep".join(parts)
RECURSIVE Join(_, _)
Join(parts, sep) ==
  IF parts = <<>> THEN <<>>
  ELSE IF Len(parts) = 1 THEN parts[1]
  ELSE parts[1] \o sep \o Join(Tail(parts), sep)

\* iterating a str yields its units one by one
Units(text) == [i \in 1..Len(text) |-> <<text[i]>>]

\* f"Step {n}: {text}", one line of the results of run
StepLine(n, text) == [kind |-> "step", step |-> n, text |-> text]

\* f"Terminated: Reached max steps ({max_steps})"
TerminatedLine(n) == [kind |-> "terminated", step |-> n, text |-> TERMINATED_NOTICE]

NoStepsLine == [kind |-> "none", step |-> 0, text |-> NO_STEPS]

\* "\n".join(results) if results else "No steps executed", kept as its lines
ResultText(lines) == IF lines = <<>> THEN <<NoStepsLine>> ELSE lines

Min(a, b) == IF a < b THEN a ELSE b
Max(a, b) == IF a > b THEN a ELSE b

\* result[:m]
Slice(text, m) ==
  IF m >= 0 THEN SubSeq(text, 1, Min(m, Len(text)))
  ELSE SubSeq(text, 1, Max(Len(text) + m, 0))

\* the slice keeps one unit too many
TruncateOffByOne(text, m) == IF m # 0 THEN Slice(text, m + 1) ELSE text

\* if self.max_observe: result = result[: self.max_observe]
Truncate(text, m) == IF m # 0 THEN Slice(text, m) ELSE text

\* argument payloads: a JSON document, a malformed one, the empty string
ARGS_JSON == "{}"
ARGS_MALFORMED == "{"
ARGS_EMPTY == ""
Payloads == {ARGS_JSON, ARGS_MALFORMED, ARGS_EMPTY}

\* json.loads(s) returns (TRUE) or raises JSONDecodeError (FALSE)
JsonLoads(s) == s = ARGS_JSON

\* json.loads(command.function.arguments or "{}")
ParseArguments(s) == JsonLoads(IF s = ARGS_EMPTY THEN "{}" ELSE s)

ToolCall(id, name, arguments) == [id |-> id, name |-> name, arguments |-> arguments]

\* tool names: registered by Manus.initialize, the terminating tool, and one
\* name no registry holds
TERMINATE == "terminate"
BASH == "bash"
GHOST == "ghost"
ToolNames == {TERMINATE, BASH, GHOST}
special_tool_names == {TERMINATE}

\* str.lower on the names above
Lower(name) == IF name = "Terminate" THEN "terminate" ELSE name

_is_special_tool(name) == Lower(name) \in {Lower(n) : n \in special_tool_names}

_should_finish_execution == TRUE

\* observation texts of execute_tool_command
ObservedOutput(name, output) == <<"Observed output of cmd ", name, " executed:\n">> \o output
NoOutput(name) == <<"Cmd ", name, " completed with no output">>
UnknownTool(name) == <<"Error: Unknown tool ", name, "">>
ParseError(name) == <<"Error: Error parsing arguments for ", name, ": Invalid JSON format">>
ToolProblem(name) == <<"Error: Tool ", name, " encountered a problem: ", "exception">>

\* the duplicate count must exceed the threshold
is_stuckStrict(mem) ==
  IF Len(mem) < 2 THEN FALSE
  ELSE LET last_message == mem[Len(mem)] IN
       IF last_message.content = <<>> THEN FALSE
       ELSE Cardinality({i \in 1..(Len(mem) - 1) :
                           /\ mem[i].role = "assistant"
                           /\ mem[i].content = last_message.content})
              > duplicate_threshold

\* BaseAgent.is_stuck
is_stuck(mem) ==
  IF Len(mem) < 2 THEN FALSE
  ELSE LET last_message == mem[Len(mem)] IN
       IF last_message.content = <<>> THEN FALSE
       ELSE Cardinality({i \in 1..(Len(mem) - 1) :
                           /\ mem[i].role = "assistant"
                           /\ mem[i].content = last_message.content})
              >= duplicate_threshold

\* ------------------------------------------------------- inputs of a run
Requests == {<<>>, <<"request">>}

\* what the model collaborator answers: text and a batch of (name, arguments)
Contents == {<<>>, <<"thought">>}
ResponsePlans ==
  { [content |-> <<>>, calls |-> <<>>],
    [content |-> <<"thought">>, calls |-> <<>>],
    [content |-> <<"thought">>, calls |-> << <<BASH, ARGS_JSON>> >>],
    [content |-> <<"thought">>, calls |-> << <<GHOST, ARGS_JSON>> >>],
    [content |-> <<>>, calls |-> << <<TERMINATE, ARGS_JSON>> >>],
    [content |-> <<>>, calls |-> << <<TERMINATE, ARGS_JSON>>, <<BASH, ARGS_JSON>> >>],
    [content |-> <<>>, calls |-> << <<BASH, ARGS_MALFORMED>> >>] }
NoResponse == [content |-> None, calls |-> <<>>]

\* ids are unique per response: the number of the model call and the index
WithIds(calls, n) ==
  [i \in 1..Len(calls) |-> ToolCall(<<n, i>>, calls[i][1], calls[i][2])]

\* what a tool's execute does: returns a text or raises
ToolOutputs == {<<>>, <<"out1", "out2">>}
ToolFailure == [ok |-> FALSE, output |-> <<>>]
ToolOutcomes == {[ok |-> TRUE, output |-> o] : o \in ToolOutputs} \cup {ToolFailure}
RunToolOutcomes == {[ok |-> TRUE, output |-> <<"out1", "out2">>], ToolFailure}

\* ------------------------------------------------------------ run, step
\* the variables every continuation of a step decides
flow == <<memory, queue, state, next_step_prompt, results, pc, current_step,
          previous_state, outcome, returned, runs, exception>>
\* the locals of execute_tool
actvars == <<act_results, cmd_idx, act_base, observations>>

\* step() has returned text: the wrapper's STEP_COMPLETE, then the rest of
\* the loop body of run (stuck check, results.append)
StepDone(mem, q, st, text) ==
  LET stuck == is_stuck(mem)
      q1 == Emit(q, STEP_COMPLETE, <<>>, current_step)
      q2 == IF stuck THEN Emit(q1, STATE_STUCK_DETECTED, <<>>, current_step) ELSE q1
      prompt == IF stuck THEN STUCK_PROMPT \o <<"\n">> \o next_step_prompt
                ELSE next_step_prompt
      q3 == IF stuck THEN Emit(q2, STATE_STUCK_HANDLED, <<>>, current_step) ELSE q2
  IN /\ memory' = mem
     /\ queue' = q3
     /\ state' = st
     /\ next_step_prompt' = prompt
     /\ results' = Append(results, StepLine(current_step, text))
     /\ pc' = "loop"
     /\ UNCHANGED <<current_step, previous_state, outcome, returned, runs, exception>>

\* the finally clause leaves the state as it found it
FinallyStateSkip(st) == st

\* self.state = previous_state in the finally clause of state_context;
\* st is the state held on reaching it
FinallyState(st) == previous_state

\* the except clause emits nothing
StateContextErrorSilent(q) ==
  Emit(q, STATE_CHANGE, <<previous_state, previous_state>>, current_step)

\* the except and finally clauses of state_context
StateContextError(q) ==
  LET q1 == Emit(q, STATE_CHANGE, <<"ERROR", "ERROR">>, current_step)
  IN Emit(q1, STATE_CHANGE, <<previous_state, previous_state>>, current_step)

\* an exception leaves step(): the wrapper's STEP_ERROR, run re-raises,
\* state_context passes through ERROR and reverts, run raises
StepRaise(mem, q, exc) ==
  LET q1 == Emit(q, STEP_ERROR, <<>>, current_step)
  IN /\ memory' = mem
     /\ queue' = StateContextError(q1)
     /\ state' = FinallyState("ERROR")
     /\ results' = <<>>
     /\ pc' = "idle"
     /\ outcome' = "raised"
     /\ exception' = exc
     /\ returned' = None
     /\ UNCHANGED <<current_step, previous_state, next_step_prompt, runs>>

\* the state check comes after the lifecycle-start event
RejectRunAfterStart ==
  /\ rejected' = TRUE
  /\ queue' = Emit(queue, LIFECYCLE_START, <<>>, current_step)
  /\ UNCHANGED <<memory, state, next_step_prompt, results, pc, current_step,
                 previous_state, outcome, returned, runs, exception, actvars, config,
                 tool_calls, should_terminate, llm_calls, executed, last_llm>>

\* run raises RuntimeError before touching anything
RejectRun ==
  /\ rejected' = TRUE
  /\ UNCHANGED <<flow, actvars, config, tool_calls, should_terminate,
                 llm_calls, executed, last_llm>>

\* the scoped transition leaves the state as it was
EnterStateKeeps(new_state) == state

\* state_context on entry: the state becomes new_state
EnterState(new_state) == new_state

\* BaseAgent.run up to the first evaluation of the loop condition
Run(request) ==
  /\ pc = "idle"
  /\ IF state # "IDLE" THEN RejectRun
     ELSE /\ runs < MaxRuns
          /\ LET q1 == Emit(queue, LIFECYCLE_START, <<>>, current_step)
                 mem1 == IF request # <<>> THEN Append(memory, user_message(request))
                         ELSE memory
                 q2 == IF request # <<>> THEN Emit(q1, MEMORY_ADDED, <<>>, current_step)
                       ELSE q1
             IN /\ memory' = mem1
                /\ queue' = Emit(q2, STATE_CHANGE, <<state, "RUNNING">>, current_step)
          /\ previous_state' = state
          /\ state' = EnterState("RUNNING")
          /\ results' = <<>>
          /\ pc' = "loop"
          /\ runs' = runs + 1
          /\ outcome' = "none"
          /\ exception' = "none"
          /\ returned' = None
          /\ last_llm' = "none"
          /\ UNCHANGED <<current_step, next_step_prompt, actvars, config, tool_calls,
                         should_terminate, llm_calls, executed, rejected>>

\* run invoked by another task while this run is suspended inside its loop
RunWhileBusy ==
  /\ pc \in {"llm", "tool"}
  /\ state # "IDLE"
  /\ RejectRun

\* the loop goes on until the state is FINISHED, whatever the step
LoopConditionNoBudget(step, st) == st # "FINISHED"

\* the condition of the while loop of run
LoopCondition(step, st) == step < max_steps /\ st # "FINISHED"

\* the loop condition holds: the step begins and think asks the model
StepBegin ==
  /\ pc = "loop"
  /\ LoopCondition(current_step, state)
  /\ llm_calls < MaxCalls
  /\ current_step' = current_step + 1
  /\ queue' = EmitAll(queue, <<STEP_START, THINK_START>>, current_step + 1)
  /\ memory' = IF next_step_prompt # <<>>
               THEN Append(memory, user_message(next_step_prompt)) ELSE memory
  /\ llm_calls' = llm_calls + 1
  /\ pc' = "llm"
  /\ UNCHANGED <<state, next_step_prompt, results, previous_state, outcome, returned,
                 runs, actvars, config, tool_calls, should_terminate, executed, rejected,
                 exception, last_llm>>

\* the comparison is strict
MaxStepsReachedStrict(step) == step > max_steps

\* if self.current_step >= self.max_steps, after the loop
MaxStepsReached(step) == step >= max_steps

\* the loop condition fails: max-steps handling, the finally clause of
\* state_context, then run awaits the sandbox cleanup
LoopExit ==
  /\ pc = "loop"
  /\ ~LoopCondition(current_step, state)
  /\ LET maxed == MaxStepsReached(current_step)
         step1 == IF maxed THEN 0 ELSE current_step
         q1 == IF maxed THEN Emit(queue, STEP_MAX_REACHED, <<>>, step1) ELSE queue
     IN /\ current_step' = step1
        /\ results' = IF maxed THEN Append(results, TerminatedLine(max_steps)) ELSE results
        /\ queue' = Emit(q1, STATE_CHANGE, <<previous_state, previous_state>>, step1)
        /\ state' = FinallyState(IF maxed THEN "IDLE" ELSE state)
  /\ pc' = "sandbox"
  /\ UNCHANGED <<memory, next_step_prompt, previous_state, outcome, returned, runs,
                 actvars, config, tool_calls, should_terminate, llm_calls, executed,
                 rejected, exception, last_llm>>

\* SANDBOX_CLEANUP returned: lifecycle-complete and the return value
SandboxCleanupOk ==
  /\ pc = "sandbox"
  /\ queue' = Emit(queue, LIFECYCLE_COMPLETE, <<>>, current_step)
  /\ returned' = ResultText(results)
  /\ outcome' = "returned"
  /\ results' = <<>>
  /\ pc' = "idle"
  /\ UNCHANGED <<memory, state, next_step_prompt, current_step, previous_state, runs,
                 actvars, config, tool_calls, should_terminate, llm_calls, executed,
                 rejected, exception, last_llm>>

\* SANDBOX_CLEANUP raised: the exception leaves run
SandboxCleanupRaise ==
  /\ pc = "sandbox"
  /\ returned' = None
  /\ outcome' = "raised"
  /\ exception' = "SandboxError"
  /\ results' = <<>>
  /\ pc' = "idle"
  /\ UNCHANGED <<memory, queue, state, next_step_prompt, current_step, previous_state,
                 runs, actvars, config, tool_calls, should_terminate, llm_calls,
                 executed, rejected, last_llm>>

\* ------------------------------------------------------------ think, act
\* an empty batch is never an error
NoCallsIsErrorNever(choice) == FALSE

\* execute_tool on an empty batch: raise ValueError(TOOL_CALL_REQUIRED)
NoCallsIsError(choice) == choice = "required"

\* ReActAgent.step after think returned should_act, up to the first tool call
\* of execute_tool or the end of the step
AfterThink(mem, q, st, calls, should_act) ==
  LET q1 == EmitAll(q, <<THINK_TOKEN_COUNT, THINK_COMPLETE>>, current_step)
      q2 == EmitAll(q1, <<ACT_START, TOOL_START>>, current_step)
      q3 == EmitAll(q2, <<ACT_TOKEN_COUNT, ACT_COMPLETE>>, current_step)
  IN IF ~should_act /\ ~should_terminate
     THEN StepDone(mem, q1, st, THINKING_COMPLETE) /\ UNCHANGED actvars
     ELSE IF calls = <<>>
     THEN IF NoCallsIsError(tool_choices) \/ mem = <<>>
          THEN StepRaise(mem, q2, IF NoCallsIsError(tool_choices) THEN "ValueError"
                                  ELSE "IndexError")
               /\ UNCHANGED actvars
          ELSE LET last == mem[Len(mem)].content
                   text == IF last # <<>> THEN last ELSE NO_CONTENT
               IN StepDone(mem, q3, st, Join(Units(text), <<"\n\n">>))
                  /\ UNCHANGED actvars
     ELSE /\ memory' = mem
          /\ queue' = q2
          /\ state' = st
          /\ act_results' = <<>>
          /\ observations' = <<>>
          /\ cmd_idx' = 1
          /\ act_base' = Len(mem)
          /\ pc' = "dispatch"
          /\ UNCHANGED <<next_step_prompt, results, current_step, previous_state,
                         outcome, returned, runs, exception>>

\* ask_tool from the model's response to its return value
AskToolResponse(resp, calls) ==
  LET content == IF resp = NoResponse THEN <<>> ELSE resp.content
      q1 == Emit(queue, TOOL_SELECTED, <<>>, current_step)
  IN IF \E i \in 1..Len(calls) : ~JsonLoads(calls[i].arguments)
     THEN StepRaise(memory, queue, "JSONDecodeError") /\ UNCHANGED actvars
     ELSE IF resp = NoResponse
     THEN AfterThink(Append(memory, assistant_message(NO_RESPONSE_TEXT)), q1, state,
                     calls, FALSE)
     ELSE IF tool_choices = "none"
     THEN IF content # <<>>
          THEN AfterThink(Append(memory, assistant_message(content)), q1, state,
                          calls, TRUE)
          ELSE AfterThink(memory, q1, state, calls, FALSE)
     ELSE LET assistant_msg == IF calls # <<>> THEN from_tool_calls(content, calls)
                               ELSE assistant_message(content)
              should_act == IF tool_choices = "required" /\ calls = <<>> THEN TRUE
                            ELSE IF tool_choices = "auto" /\ calls = <<>>
                            THEN content # <<>>
                            ELSE calls # <<>>
          IN AfterThink(Append(memory, assistant_msg), q1, state, calls, should_act)

\* the model answers
LLMRespond(resp) ==
  /\ pc = "llm"
  /\ LET calls == IF resp = NoResponse THEN <<>> ELSE WithIds(resp.calls, llm_calls)
     IN /\ tool_calls' = calls
        /\ AskToolResponse(resp, calls)
  /\ last_llm' = "response"
  /\ UNCHANGED <<config, should_terminate, llm_calls, executed, rejected>>

\* the model call fails and the cause is TokenLimitExceeded
LLMLimit ==
  /\ pc = "llm"
  /\ AfterThink(Append(memory, assistant_message(TOKEN_LIMIT_TEXT)), queue, "FINISHED",
                tool_calls, FALSE)
  /\ last_llm' = "limit"
  /\ UNCHANGED <<config, tool_calls, should_terminate, llm_calls, executed, rejected>>

\* the model call fails otherwise: ask_tool re-raises
LLMError ==
  /\ pc = "llm"
  /\ StepRaise(memory, queue, "LLMError")
  /\ last_llm' = "error"
  /\ UNCHANGED <<actvars, config, tool_calls, should_terminate, llm_calls, executed,
                 rejected>>

\* the loop breaks once a command has finished the run
NextCommandBreak(idx, st) == IF st = "FINISHED" THEN Len(tool_calls) + 1 ELSE idx + 1

\* for command in self.tool_calls: the loop goes on to the next command
\* whatever the state st the command left
NextCommand(idx, st) == idx + 1

\* every tool Message carries the id of the first call of the batch
RecordObservationFirstId(q, st, observation) ==
  LET result == Truncate(observation, max_observe)
  IN /\ memory' = Append(memory, tool_message(result, tool_calls[1].id))
     /\ act_results' = Append(act_results, result)
     /\ observations' = Append(observations, observation)
     /\ cmd_idx' = NextCommand(cmd_idx, st)
     /\ queue' = q
     /\ state' = st
     /\ pc' = "dispatch"
     /\ UNCHANGED <<next_step_prompt, results, current_step, previous_state, outcome,
                    returned, runs, act_base, exception>>

\* execute_tool after execute_tool_command returned observation
RecordObservation(q, st, observation) ==
  LET command == tool_calls[cmd_idx]
      result == Truncate(observation, max_observe)
  IN /\ memory' = Append(memory, tool_message(result, command.id))
     /\ act_results' = Append(act_results, result)
     /\ observations' = Append(observations, observation)
     /\ cmd_idx' = NextCommand(cmd_idx, st)
     /\ queue' = q
     /\ state' = st
     /\ pc' = "dispatch"
     /\ UNCHANGED <<next_step_prompt, results, current_step, previous_state, outcome,
                    returned, runs, act_base, exception>>

\* the next command of the batch: execute_tool_command up to the tool's execute
DispatchCall ==
  /\ pc = "dispatch"
  /\ cmd_idx <= Len(tool_calls)
  /\ LET command == tool_calls[cmd_idx]
         name == command.name
     IN IF name = ""
        THEN RecordObservation(queue, state, INVALID_COMMAND) /\ UNCHANGED executed
        ELSE IF name \notin available_tools
        THEN RecordObservation(queue, state, UnknownTool(name)) /\ UNCHANGED executed
        ELSE IF ~ParseArguments(command.arguments)
        THEN RecordObservation(queue, state, ParseError(name)) /\ UNCHANGED executed
        ELSE /\ queue' = Emit(queue, TOOL_EXECUTE_START, <<>>, current_step)
             /\ executed' = Append(executed, command)
             /\ pc' = "tool"
             /\ UNCHANGED <<memory, state, next_step_prompt, results, current_step,
                            previous_state, outcome, returned, runs, actvars, exception>>
  /\ UNCHANGED <<config, tool_calls, should_terminate, llm_calls, rejected, last_llm>>

\* handle_special_tool
handle_special_tool(name, st) ==
  IF _is_special_tool(name) /\ _should_finish_execution THEN "FINISHED" ELSE st

\* the tool's execute ends: the rest of execute_tool_command, then the
\* truncation and the tool Message of execute_tool
ToolReturn(out) ==
  /\ pc = "tool"
  /\ LET name == tool_calls[cmd_idx].name
     IN IF out.ok
        THEN RecordObservation(
               Emit(queue, TOOL_EXECUTE_COMPLETE, <<>>, current_step),
               handle_special_tool(name, state),
               IF out.output # <<>> THEN ObservedOutput(name, out.output)
               ELSE NoOutput(name))
        ELSE RecordObservation(queue, state, ToolProblem(name))
  /\ UNCHANGED <<config, tool_calls, should_terminate, llm_calls, executed, rejected,
                 last_llm>>

\* the batch is exhausted: execute_tool returns, act joins, the step ends
ActComplete ==
  /\ pc = "dispatch"
  /\ cmd_idx > Len(tool_calls)
  /\ LET q1 == EmitAll(queue, <<TOOL_COMPLETE, ACT_TOKEN_COUNT, ACT_COMPLETE>>,
                       current_step)
     IN StepDone(memory, q1, state, Join(act_results, <<"\n\n">>))
  /\ UNCHANGED <<actvars, config, tool_calls, should_terminate, llm_calls, executed,
                 rejected, last_llm>>

\* terminate(): the cancellation is signalled while the run is suspended
terminate ==
  /\ pc \in {"llm", "tool"}
  /\ ~should_terminate
  /\ should_terminate' = TRUE
  /\ UNCHANGED <<flow, actvars, config, tool_calls, llm_calls, executed, rejected,
                 last_llm>>

\* ------------------------------------------------------- specifications
\* MCPToolCallExtension.__init__: no client, no proxy registered
InitMcp ==
  /\ mcp_clients = {}
  /\ proxies = {}
  /\ closed = {}
  /\ mcp_ops = 0
  /\ last_op = [op |-> "none", client_id |-> "", result |-> "none"]
  /\ class_tools = {TERMINATE, BASH}
  /\ own_registry = FALSE
  /\ host_clients = {}
  /\ host_op = [op |-> "none", client_id |-> "", result |-> "none"]

\* EventQueue.__init__: an empty deque, no handler, no task, the flag clear
InitEvents ==
  /\ handlers = <<>>
  /\ ev_task = "none"
  /\ ev_flag = FALSE
  /\ ev_cur = NoEvent
  /\ delivered = <<>>
  /\ ev_seq = 0
  /\ ev_taken = 0

InitAgent ==
  /\ state = "IDLE"
  /\ current_step = 0
  /\ memory = <<>>
  /\ next_step_prompt = NEXT_STEP_PROMPT
  /\ should_terminate = FALSE
  /\ queue = <<>>
  /\ tool_calls = <<>>
  /\ available_tools = {TERMINATE, BASH}
  /\ previous_state = "IDLE"
  /\ results = <<>>
  /\ act_results = <<>>
  /\ cmd_idx = 1
  /\ outcome = "none"
  /\ returned = None
  /\ llm_calls = 0
  /\ runs = 0
  /\ rejected = FALSE
  /\ act_base = 0
  /\ executed = <<>>
  /\ exception = "none"
  /\ last_llm = "none"
  /\ observations = <<>>
  /\ InitMcp
  /\ InitEvents
  /\ cmd_result = <<>>

\* a constructed agent, any tool-choice policy, the default max_observe
Init ==
  /\ InitAgent
  /\ pc = "idle"
  /\ max_steps = MaxSteps
  /\ tool_choices \in ToolChoices
  /\ max_observe = DefaultMaxObserve

Next ==
  \/ \E request \in Requests : Run(request)
  \/ RunWhileBusy
  \/ StepBegin
  \/ LoopExit
  \/ \E resp \in ResponsePlans \cup {NoResponse} : LLMRespond(resp)
  \/ LLMLimit
  \/ LLMError
  \/ DispatchCall
  \/ \E out \in RunToolOutcomes : ToolReturn(out)
  \/ ActComplete
  \/ SandboxCleanupOk
  \/ SandboxCleanupRaise
  \/ terminate

Spec == Init /\ [][Next]_vars

\* Act alone, on any batch: the agent is inside step 1 of a run, tool_calls
\* holds a batch (execute_tool takes whatever batch the helper holds), the
\* assistant Message carrying it is the last of Memory, and max_observe is
\* any length
CallKinds == ToolNames \X Payloads
Batches == UNION {[1..n -> CallKinds] : n \in 1..MaxBatch}

InitAct ==
  /\ pc = "dispatch"
  /\ state = "RUNNING"
  /\ previous_state = "IDLE"
  /\ current_step = 1
  /\ max_steps = MaxSteps
  /\ tool_choices = "auto"
  /\ max_observe \in 0..MaxObserve
  /\ available_tools = {TERMINATE, BASH}
  /\ \E b \in Batches : tool_calls = WithIds(b, 1)
  /\ memory = <<user_message(NEXT_STEP_PROMPT), from_tool_calls(<<>>, tool_calls)>>
  /\ act_base = 2
  /\ next_step_prompt = NEXT_STEP_PROMPT
  /\ should_terminate = FALSE
  /\ queue = <<>>
  /\ results = <<>>
  /\ act_results = <<>>
  /\ observations = <<>>
  /\ cmd_idx = 1
  /\ outcome = "none"
  /\ exception = "none"
  /\ returned = None
  /\ llm_calls = 1
  /\ last_llm = "response"
  /\ runs = 1
  /\ rejected = FALSE
  /\ executed = <<>>
  /\ InitMcp
  /\ InitEvents
  /\ cmd_result = <<>>

NextAct ==
  \/ DispatchCall
  \/ \E out \in ToolOutcomes : ToolReturn(out)
  \/ ActComplete

SpecAct == InitAct /\ [][NextAct]_vars

\* the stuck check alone, on any Memory: step 1 of a run has produced its
\* text and the loop body goes on to is_stuck over whatever Memory holds
StuckRoles == {"user", "assistant", "tool"}
StuckContents == {<<>>, <<"thought">>, <<"other">>}
StuckMessage(role, content) ==
  IF role = "tool" THEN tool_message(content, <<1, 1>>) ELSE Msg(role, content, NoId, <<>>)
StuckMessages == {StuckMessage(r, c) : r \in StuckRoles, c \in StuckContents}
Memories == UNION {[1..n -> StuckMessages] : n \in 0..MaxMem}

InitStuck ==
  /\ pc = "stuck"
  /\ state = "RUNNING"
  /\ previous_state = "IDLE"
  /\ current_step = 1
  /\ max_steps = MaxSteps
  /\ tool_choices = "auto"
  /\ max_observe = DefaultMaxObserve
  /\ available_tools = {TERMINATE, BASH}
  /\ memory \in Memories
  /\ tool_calls = <<>>
  /\ act_base = 0
  /\ next_step_prompt = NEXT_STEP_PROMPT
  /\ should_terminate = FALSE
  /\ queue = <<>>
  /\ results = <<>>
  /\ act_results = <<>>
  /\ observations = <<>>
  /\ cmd_idx = 1
  /\ outcome = "none"
  /\ exception = "none"
  /\ returned = None
  /\ llm_calls = 1
  /\ last_llm = "response"
  /\ runs = 1
  /\ rejected = FALSE
  /\ executed = <<>>
  /\ InitMcp
  /\ InitEvents
  /\ cmd_result = <<>>

\* the rest of the loop body of run once step() has returned
StuckCheck ==
  /\ pc = "stuck"
  /\ StepDone(memory, queue, state, THINKING_COMPLETE)
  /\ UNCHANGED <<actvars, config, tool_calls, should_terminate, llm_calls, executed,
                 rejected, last_llm>>

NextStuck == StuckCheck

SpecStuck == InitStuck /\ [][NextStuck]_vars

\* ------------------------------------------- remote tool hosts (MCP)
\* client ids and the tool names a host exposes; ids and names are free text
ClientIds == {"a", "a-b"}
RemoteToolNames == {"c", "b-c"}
ExposedToolSets == {{"c"}, {"b-c"}, {"c", "b-c"}}

\* session: Optional[ClientSession] = None
NoSession == 0

\* prefixed_name = f"{self.client_id}-{tool.name}"
PrefixedName(client_id, name) == client_id \o "-" \o name

\* a MCPSandboxClientTool: its name, client_id and its own session field
ClientTool(name, client_id, session) ==
  [name |-> name, client_id |-> client_id, session |-> session]

\* self.name[len(self.client_id) + 1 :] if self.client_id else self.name
ServerToolName(tool) ==
  IF tool.client_id # ""
  THEN SubSeq(tool.name, Len(tool.client_id) + 2, Len(tool.name))
  ELSE tool.name

\* _initialize_and_list_tools: the tool_map a client builds from list_tools
ClientToolMap(client_id, session, exposed) ==
  {ClientTool(PrefixedName(client_id, n), client_id, session) : n \in exposed}

HasClient(client_id) == \E c \in mcp_clients : c.client_id = client_id
GetClient(client_id) == CHOOSE c \in mcp_clients : c.client_id = client_id

\* ToolCollection.add_tool for each tool of tools: the registry holds one
\* entry per name, a name already registered keeps its entry
AddToolNames(names, tools) == names \cup {t.name : t \in tools}
AddToolProxies(names, held, tools) == held \cup {t \in tools : t.name \notin names}

\* self.available_tools of a helper: the attribute of the instance when one
\* was assigned, else the attribute of the class, which every helper without
\* one of its own resolves to. What add_tool leaves in the class attribute
ClassToolsAfter(own, class, mine) == IF own THEN class ELSE mine

\* the registry is changed while the agent is not running or is suspended
\* at an await
RegistryOpen == pc \in {"idle", "llm", "tool"} /\ mcp_ops < MaxMcpOps

\* ToolCallContextHelper.add_mcp: connect the client, then register its tools
add_mcp(client_id, exposed) ==
  /\ RegistryOpen
  /\ mcp_ops' = mcp_ops + 1
  /\ IF HasClient(client_id)
     THEN /\ last_op' = [op |-> "add_mcp", client_id |-> client_id, result |-> "ValueError"]
          /\ UNCHANGED <<mcp_clients, proxies, closed, available_tools, class_tools>>
     ELSE LET session == mcp_ops + 1
              tool_map == ClientToolMap(client_id, session, exposed)
          IN /\ mcp_clients' = mcp_clients \cup
                  {[client_id |-> client_id, session |-> session, tool_map |-> tool_map,
                    exposed |-> exposed]}
             /\ available_tools' = AddToolNames(available_tools, tool_map)
             /\ class_tools' = ClassToolsAfter(own_registry, class_tools,
                                               AddToolNames(available_tools, tool_map))
             /\ proxies' = AddToolProxies(available_tools, proxies, tool_map)
             /\ last_op' = [op |-> "add_mcp", client_id |-> client_id, result |-> "ok"]
             /\ UNCHANGED closed
  /\ UNCHANGED <<flow, actvars, settings, evvars, cmd_result, tool_calls, should_terminate, llm_calls,
                 executed, rejected, last_llm, own_registry, host_clients, host_op>>

\* ToolCallContextHelper.add_tool with a proxy built with its defaults
\* (no session, no client id)
add_tool(name) ==
  /\ RegistryOpen
  /\ mcp_ops' = mcp_ops + 1
  /\ LET tool == ClientTool(name, "", NoSession)
     IN /\ available_tools' = AddToolNames(available_tools, {tool})
        /\ class_tools' = ClassToolsAfter(own_registry, class_tools,
                                          AddToolNames(available_tools, {tool}))
        /\ proxies' = AddToolProxies(available_tools, proxies, {tool})
  /\ last_op' = [op |-> "add_tool", client_id |-> "", result |-> "ok"]
  /\ UNCHANGED <<mcp_clients, closed>>
  /\ UNCHANGED <<flow, actvars, settings, evvars, cmd_result, tool_calls, should_terminate, llm_calls,
                 executed, rejected, last_llm, own_registry, host_clients, host_op>>

\* MCPSandboxClients.disconnect: closes the exit stack when a session is
\* held; the sessions closed so far
Disconnect(client, closed_so_far) ==
  IF client.session # NoSession THEN closed_so_far \cup {client.session}
  ELSE closed_so_far

\* MCPToolCallExtension.remove_client: pop the client and disconnect it
remove_client(client_id) ==
  /\ RegistryOpen
  /\ mcp_ops' = mcp_ops + 1
  /\ IF HasClient(client_id)
     THEN LET client == GetClient(client_id)
          IN /\ mcp_clients' = mcp_clients \ {client}
             /\ closed' = Disconnect(client, closed)
             /\ last_op' = [op |-> "remove_client", client_id |-> client_id,
                            result |-> "True"]
     ELSE /\ last_op' = [op |-> "remove_client", client_id |-> client_id,
                         result |-> "False"]
          /\ UNCHANGED <<mcp_clients, closed>>
  /\ UNCHANGED <<proxies, available_tools, class_tools>>
  /\ UNCHANGED <<flow, actvars, settings, evvars, cmd_result, tool_calls, should_terminate, llm_calls,
                 executed, rejected, last_llm, own_registry, host_clients, host_op>>

\* how session.call_tool ends: text content, no text content, an exception
TransportOutcomes == {"text", "empty", "error"}

\* a ToolResult with an error, as the dispatcher formats it
ToolResultError(text) == [ok |-> TRUE, output |-> <<"Error: ">> \o text]

\* a transport error leaves execute as an exception
ClientToolExecuteRaises(tool, transport) ==
  IF tool.session = NoSession THEN ToolResultError(<<"Not connected to MCP server">>)
  ELSE IF transport = "error" THEN ToolFailure
  ELSE IF transport = "text" THEN [ok |-> TRUE, output |-> <<"remote text">>]
  ELSE [ok |-> TRUE, output |-> <<"No output returned.">>]

\* MCPSandboxClientTool.execute
ClientToolExecute(tool, transport) ==
  IF tool.session = NoSession THEN ToolResultError(<<"Not connected to MCP server">>)
  ELSE IF transport = "error"
  THEN ToolResultError(<<"Error executing tool: ", "exception">>)
  ELSE IF transport = "text" THEN [ok |-> TRUE, output |-> <<"remote text">>]
  ELSE [ok |-> TRUE, output |-> <<"No output returned.">>]

\* the proxy the current command was routed to
CurrentProxy == CHOOSE t \in proxies : t.name = tool_calls[cmd_idx].name
IsProxyCall ==
  /\ cmd_idx <= Len(tool_calls)
  /\ \E t \in proxies : t.name = tool_calls[cmd_idx].name

\* the remote call of a proxy ends; a closed session only fails
ProxyReturn ==
  /\ pc = "tool"
  /\ IsProxyCall
  /\ \E transport \in TransportOutcomes :
       /\ CurrentProxy.session \in closed => transport = "error"
       /\ ToolReturn(ClientToolExecute(CurrentProxy, transport))

\* what the model answers when remote tools are offered
RemotePlans ==
  { [content |-> <<"thought">>, calls |-> << <<name, ARGS_JSON>> >>] :
      name \in {"c", "a-c", "a-b-c"} }

InitMcpRun ==
  /\ InitAgent
  /\ pc = "idle"
  /\ max_steps = MaxSteps
  /\ tool_choices = "auto"
  /\ max_observe = DefaultMaxObserve

NextMcp ==
  \/ \E client_id \in ClientIds, exposed \in ExposedToolSets : add_mcp(client_id, exposed)
  \/ add_tool("c")
  \/ \E client_id \in ClientIds : remove_client(client_id)
  \/ Run(<<"request">>)
  \/ StepBegin
  \/ \E resp \in RemotePlans : LLMRespond(resp)
  \/ DispatchCall
  \/ ProxyReturn
  \/ ActComplete
  \/ LoopExit
  \/ SandboxCleanupOk

SpecMcp == InitMcpRun /\ [][NextMcp]_vars

\* ------------------------------------------------------ the two gateways
\* MCPToolCallExtension.disconnect_all: every client is removed through
\* remove_client, which pops it and disconnects it
disconnect_all ==
  /\ RegistryOpen
  /\ mcp_ops' = mcp_ops + 1
  /\ mcp_clients' = {}
  /\ closed' = closed \cup {c.session : c \in {d \in mcp_clients : d.session # NoSession}}
  /\ last_op' = [op |-> "disconnect_all", client_id |-> "", result |-> "ok"]
  /\ UNCHANGED <<proxies, available_tools, class_tools>>
  /\ UNCHANGED <<flow, actvars, settings, evvars, cmd_result, tool_calls, should_terminate,
                 llm_calls, executed, rejected, last_llm, own_registry, host_clients,
                 host_op>>

HostHasClient(client_id) == \E c \in host_clients : c.client_id = client_id

\* MCPSandboxClients.disconnect, on the client itself: with a session held
\* the exit stack is closed and session, tools and tool_map are cleared
Disconnected(client) ==
  IF client.session # NoSession
  THEN [client EXCEPT !.session = NoSession, !.tool_map = {}]
  ELSE client

\* the host's state apart from its clients is left alone
HostFrame ==
  UNCHANGED <<flow, actvars, settings, evvars, cmd_result, tool_calls, should_terminate,
              llm_calls, executed, rejected, last_llm, own_registry, mcp_clients,
              proxies, closed, last_op, available_tools, class_tools>>

\* MCPToolCallSandboxHost.add_stdio_client: a known id is refused; else the
\* client connects, which may raise, and is stored under its id
add_stdio_client(client_id, exposed, connects) ==
  /\ RegistryOpen
  /\ mcp_ops' = mcp_ops + 1
  /\ IF HostHasClient(client_id)
     THEN /\ host_op' = [op |-> "add_stdio_client", client_id |-> client_id,
                         result |-> "ValueError"]
          /\ UNCHANGED host_clients
     ELSE IF ~connects
     THEN /\ host_op' = [op |-> "add_stdio_client", client_id |-> client_id,
                         result |-> "raised"]
          /\ UNCHANGED host_clients
     ELSE LET session == mcp_ops + 1
          IN /\ host_clients' = host_clients \cup
                  {[client_id |-> client_id, session |-> session,
                    tool_map |-> ClientToolMap(client_id, session, exposed)]}
             /\ host_op' = [op |-> "add_stdio_client", client_id |-> client_id,
                            result |-> "ok"]
  /\ HostFrame

\* MCPToolCallSandboxHost.remove_client: pop the client and disconnect it
host_remove_client(client_id) ==
  /\ RegistryOpen
  /\ mcp_ops' = mcp_ops + 1
  /\ host_clients' = {c \in host_clients : c.client_id # client_id}
  /\ host_op' = [op |-> "remove_client", client_id |-> client_id,
                 result |-> IF HostHasClient(client_id) THEN "True" ELSE "False"]
  /\ HostFrame

\* MCPToolCallSandboxHost.disconnect_all: each client, newest first, is
\* fetched with get_client and disconnected
host_disconnect_all ==
  /\ RegistryOpen
  /\ mcp_ops' = mcp_ops + 1
  /\ host_clients' = {Disconnected(c) : c \in host_clients}
  /\ host_op' = [op |-> "disconnect_all", client_id |-> "", result |-> "ok"]
  /\ HostFrame

\* list_clients and get_client_count of the host
host_list_clients == {c.client_id : c \in host_clients}
host_get_client_count == Cardinality(host_clients)

\* list_clients and get_client_count of the extension
list_clients == {c.client_id : c \in mcp_clients}
get_client_count == Cardinality(mcp_clients)

NextGateways ==
  \/ \E client_id \in ClientIds, exposed \in ExposedToolSets : add_mcp(client_id, exposed)
  \/ \E client_id \in ClientIds : remove_client(client_id)
  \/ disconnect_all
  \/ \E client_id \in ClientIds, exposed \in ExposedToolSets, connects \in BOOLEAN :
       add_stdio_client(client_id, exposed, connects)
  \/ \E client_id \in ClientIds : host_remove_client(client_id)
  \/ host_disconnect_all

SpecGateways == InitMcpRun /\ [][NextGateways]_vars

\* ------------------------------------------------------ any step budget
\* a constructed agent with any max_steps from 0 up
InitBudget ==
  /\ InitAgent
  /\ pc = "idle"
  /\ max_steps \in 0..MaxSteps
  /\ tool_choices = "auto"
  /\ max_observe = DefaultMaxObserve

SpecBudget == InitBudget /\ [][Next]_vars

\* ------------------------------------------- the guidance after a stuck loop
\* NEXT_STEP_PROMPT.format(...) of the Manus prompts, and the prompt the
\* browser helper formats
MANUS_STEP_PROMPT == <<"As OpenManus, determine the optimal next action", "progress">>
BROWSER_STEP_PROMPT == <<"browser state">>
BROWSER_USE == "browser_use"

\* Manus._check_browser_in_use_recently: some of the last three Messages
\* carries a call of the browser tool
_check_browser_in_use_recently(mem) ==
  \E i \in Max(1, Len(mem) - 2)..Len(mem) :
    \E k \in 1..Len(mem[i].tool_calls) : mem[i].tool_calls[k].name = BROWSER_USE

\* the prompt Manus.think puts in place of next_step_prompt for the time of
\* ask_tool; the original prompt is put back when ask_tool has returned
ManusThinkPrompt(mem) ==
  IF _check_browser_in_use_recently(mem) THEN BROWSER_STEP_PROMPT
  ELSE MANUS_STEP_PROMPT

\* the loop condition holds on a Manus agent: the step begins, Manus.think
\* swaps the prompt and ask_tool appends it and asks the model
ManusStepBegin ==
  /\ pc = "loop"
  /\ LoopCondition(current_step, state)
  /\ llm_calls < MaxCalls
  /\ current_step' = current_step + 1
  /\ queue' = EmitAll(queue, <<STEP_START, THINK_START>>, current_step + 1)
  /\ memory' = Append(memory, user_message(ManusThinkPrompt(memory)))
  /\ llm_calls' = llm_calls + 1
  /\ pc' = "llm"
  /\ UNCHANGED <<state, next_step_prompt, results, previous_state, outcome, returned,
                 runs, actvars, config, tool_calls, should_terminate, executed, rejected,
                 exception, last_llm>>

\* the stuck check on any Memory, then the next Think of either agent
NextGuidance ==
  \/ StuckCheck
  \/ StepBegin
  \/ ManusStepBegin

SpecGuidance == InitStuck /\ [][NextGuidance]_vars

\* --------------------------------------------------- registries of agents
SYSTEM_PROMPT == <<"system prompt">>

\* Manus.initialize with no tools given: the step counter is reset, the
\* prompts are formatted, the system Message is added to Memory, and the
\* agent gets a new helper (with a new, empty MCP extension) whose
\* available_tools is assigned a new collection holding Terminate
initialize ==
  /\ pc = "idle"
  /\ Len(memory) < MaxMem
  /\ current_step' = 0
  /\ next_step_prompt' = MANUS_STEP_PROMPT
  /\ memory' = Append(memory, system_message(SYSTEM_PROMPT))
  /\ mcp_clients' = {}
  /\ available_tools' = {TERMINATE}
  /\ proxies' = {}
  /\ own_registry' = TRUE
  /\ UNCHANGED <<state, should_terminate, queue, tool_calls, previous_state, results,
                 actvars, outcome, returned, llm_calls, runs, rejected, executed,
                 exception, last_llm, pc, settings, evvars, cmd_result, closed,
                 mcp_ops, last_op, class_tools, host_clients, host_op>>

\* agents of one process: this one, constructed as a plain tool-call agent
\* and possibly initialized as Manus, registers tools and remote hosts
NextAgents ==
  \/ initialize
  \/ \E client_id \in ClientIds, exposed \in ExposedToolSets : add_mcp(client_id, exposed)
  \/ \E name \in RemoteToolNames : add_tool(name)
  \/ \E client_id \in ClientIds : remove_client(client_id)

SpecAgents == InitMcpRun /\ [][NextAgents]_vars

\* ----------------------------------------------------------- one run
\* one invocation of run on a fresh agent, with every await of the run
\* returning sooner or later: the model call, the tool call, the sandbox
\* cleanup. The invocation itself, a second invocation and terminate are the
\* caller's and may or may not happen
FirstRun(request) == runs = 0 /\ Run(request)

Progress ==
  \/ StepBegin
  \/ LoopExit
  \/ \E resp \in ResponsePlans \cup {NoResponse} : LLMRespond(resp)
  \/ LLMLimit
  \/ LLMError
  \/ DispatchCall
  \/ \E out \in RunToolOutcomes : ToolReturn(out)
  \/ ActComplete
  \/ SandboxCleanupOk
  \/ SandboxCleanupRaise

NextOneRun ==
  \/ \E request \in Requests : FirstRun(request)
  \/ Progress
  \/ RunWhileBusy
  \/ terminate

SpecOneRun == InitBudget /\ [][NextOneRun]_vars /\ WF_vars(Progress)

\* ------------------------------------------------- answers without calls
\* runs in which the model answers with text only: no text, a text of one
\* unit, a text of two units
TextPlans ==
  {[content |-> c, calls |-> <<>>] : c \in {<<>>, <<"thought">>, <<"first", "second">>}}

InitTexts ==
  /\ InitAgent
  /\ pc = "idle"
  /\ max_steps = MaxSteps
  /\ tool_choices \in {"auto", "none"}
  /\ max_observe = DefaultMaxObserve

NextTexts ==
  \/ \E request \in Requests : Run(request)
  \/ RunWhileBusy
  \/ StepBegin
  \/ LoopExit
  \/ \E resp \in TextPlans : LLMRespond(resp)
  \/ SandboxCleanupOk
  \/ terminate

SpecTexts == InitTexts /\ [][NextTexts]_vars

\* ------------------------------------------------ Act, statement by statement
\* the statements from the return of a tool's execute to the tool Message,
\* taken one group at a time: first the rest of execute_tool_command, which
\* emits the complete event, runs handle_special_tool and formats the
\* observation, then the part of execute_tool that truncates and records
ExecuteReturn(out) ==
  /\ pc = "tool"
  /\ LET name == tool_calls[cmd_idx].name
     IN IF out.ok
        THEN /\ queue' = Emit(queue, TOOL_EXECUTE_COMPLETE, <<>>, current_step)
             /\ state' = handle_special_tool(name, state)
             /\ cmd_result' = IF out.output # <<>> THEN ObservedOutput(name, out.output)
                              ELSE NoOutput(name)
        ELSE /\ cmd_result' = ToolProblem(name)
             /\ UNCHANGED <<queue, state>>
  /\ pc' = "record"
  /\ UNCHANGED <<memory, next_step_prompt, results, current_step, previous_state,
                 outcome, returned, runs, exception, actvars, settings,
                 available_tools, mcpvars, evvars, tool_calls, should_terminate,
                 llm_calls, executed, rejected, last_llm>>

\* execute_tool: the result is truncated and its tool Message appended
RecordResult ==
  /\ pc = "record"
  /\ RecordObservation(queue, state, cmd_result)
  /\ cmd_result' = <<>>
  /\ UNCHANGED <<settings, available_tools, mcpvars, evvars, tool_calls,
                 should_terminate, llm_calls, executed, rejected, last_llm>>

NextFinish ==
  \/ DispatchCall
  \/ \E out \in ToolOutcomes : ExecuteReturn(out)
  \/ RecordResult
  \/ ActComplete

SpecFinish == InitAct /\ [][NextFinish]_vars

\* ------------------------------------------------------------ event queue
\* EventQueue on its own: handlers are registered, events are put, the
\* consumption loop is started and stopped, and handlers return or raise,
\* in any interleaving the event loop allows (a coroutine is left only at an
\* await)
MaxEvents == 2
MaxHandlers == 2

EventNames == {STATE_CHANGE, LIFECYCLE_START}
Patterns == {"agent:", "agent:state"}

IsPrefix(p, s) == Len(p) <= Len(s) /\ SubSeq(s, 1, Len(p)) = p

\* EventPattern.pattern.match(name): re.match anchors at the start only, so
\* a pattern without metacharacters matches the names it is a prefix of
Match(pattern, name) == IsPrefix(pattern, name)

\* a handler, by the pattern it is registered under; any handler call may
\* return or raise
HandlerKinds == [pattern : Patterns]

\* the handlers after position from whose pattern matches name
MatchingAfter(hs, name, from) ==
  {i \in (from + 1)..Len(hs) : Match(hs[i].pattern, name)}

SetMin(S) == CHOOSE x \in S : \A y \in S : x <= y

\* the newest event is taken first
PopRight(q) == [event |-> q[Len(q)], rest |-> SubSeq(q, 1, Len(q) - 1)]

\* deque.popleft
PopLeft(q) == [event |-> Head(q), rest |-> Tail(q)]

\* the sequence number and the emit-time context an event carries
EventSeq(e) == e.data[1]
EventDuring(e) == e.data[2]

\* process_events from the point it resumes to its next await: the for loop
\* goes on to the next matching handler of the current event; with none left
\* the while loop takes the next event, and an event no handler matches is
\* taken and passed over; with the queue empty the flag is cleared and the
\* loop waits
RECURSIVE Advance(_, _, _, _)
Advance(q, hs, cur, taken) ==
  LET rest == IF cur = NoEvent THEN {} ELSE MatchingAfter(hs, cur.name, cur.idx)
  IN IF rest # {}
     THEN [q |-> q, cur |-> [cur EXCEPT !.idx = SetMin(rest)], taken |-> taken]
     ELSE IF q = <<>>
     THEN [q |-> q, cur |-> NoEvent, taken |-> taken]
     ELSE LET p == PopLeft(q)
          IN Advance(p.rest, hs,
                     [name |-> p.event.name, data |-> p.event.data,
                      step |-> p.event.step, idx |-> 0],
                     taken + 1)

LogEntry(cur, phase) ==
  [seq |-> EventSeq(cur), idx |-> cur.idx, during |-> EventDuring(cur),
   phase |-> phase]

\* the loop reaches its next await: a handler call, or the wait on the flag
Resume(log, from) ==
  LET a == Advance(queue, handlers, from, ev_taken)
  IN /\ queue' = a.q
     /\ ev_cur' = a.cur
     /\ ev_taken' = a.taken
     /\ ev_flag' = IF a.cur = NoEvent THEN FALSE ELSE ev_flag
     /\ delivered' = IF a.cur = NoEvent THEN log
                     ELSE Append(log, LogEntry(a.cur, "start"))

agentvars == <<state, current_step, memory, next_step_prompt, should_terminate,
               tool_calls, available_tools, pc, previous_state, results,
               act_results, cmd_idx, outcome, returned, llm_calls, runs,
               rejected, act_base, executed, exception, last_llm, observations,
               settings, mcpvars, cmd_result>>

\* BaseAgent.on, EventQueue.add_handler
on(handler) ==
  /\ Len(handlers) < MaxHandlers
  /\ handlers' = Append(handlers, handler)
  /\ UNCHANGED <<agentvars, queue, ev_task, ev_flag, ev_cur, delivered, ev_seq,
                 ev_taken>>

\* BaseAgent.emit, EventQueue.put: the event is appended and the flag set.
\* The event carries its sequence number and the sequence number of the
\* event whose handler is running when it is emitted (0 when none is)
\* a put leaves the wake-up flag as it finds it
FlagLeftByPut(flag) == flag

\* EventQueue.put, self._event.set(): the flag is set whatever it was
FlagAfterPut(flag) == TRUE

emit(name) ==
  /\ ev_seq < MaxEvents
  /\ queue' = Emit(queue, name,
                   <<ev_seq + 1, IF ev_cur = NoEvent THEN 0 ELSE EventSeq(ev_cur)>>,
                   current_step)
  /\ ev_flag' = FlagAfterPut(ev_flag)
  /\ ev_seq' = ev_seq + 1
  /\ UNCHANGED <<agentvars, handlers, ev_task, ev_cur, delivered, ev_taken>>

\* EventQueue.start: a task is created unless one exists that is not done
start ==
  /\ ev_task' = IF ev_task \in {"none", "done"} THEN "running" ELSE ev_task
  /\ UNCHANGED <<agentvars, queue, handlers, ev_flag, ev_cur, delivered, ev_seq,
                 ev_taken>>

\* EventQueue.stop: the task is asked to cancel
stop ==
  /\ ev_task' = IF ev_task = "running" THEN "cancelling" ELSE ev_task
  /\ UNCHANGED <<agentvars, queue, handlers, ev_flag, ev_cur, delivered, ev_seq,
                 ev_taken>>

\* process_events, CancelledError at the await the task is suspended at:
\* the loop breaks and the task is done
Cancelled ==
  /\ ev_task = "cancelling"
  /\ ev_task' = "done"
  /\ ev_cur' = NoEvent
  /\ delivered' = IF ev_cur = NoEvent THEN delivered
                  ELSE Append(delivered, LogEntry(ev_cur, "cancelled"))
  /\ UNCHANGED <<agentvars, queue, handlers, ev_flag, ev_seq, ev_taken>>

\* process_events, the wait on the flag returns
ConsumerWake ==
  /\ ev_task = "running"
  /\ ev_cur = NoEvent
  /\ ev_flag
  /\ Resume(delivered, NoEvent)
  /\ UNCHANGED <<agentvars, handlers, ev_task, ev_seq>>

\* an exception of a handler leaves the for loop of the event
ResumeAfterAbandon(cur, raised) ==
  IF raised THEN [cur EXCEPT !.idx = Len(handlers)] ELSE cur

\* where the for loop over the handlers goes on after a handler call: the
\* try/except around the call keeps the loop at the handler's position
ResumeAfter(cur, raised) == cur

\* process_events, the awaited handler returns or raises
HandlerDone(raised) ==
  /\ ev_task = "running"
  /\ ev_cur # NoEvent
  /\ Resume(Append(delivered, LogEntry(ev_cur, IF raised THEN "error" ELSE "end")),
            ResumeAfter(ev_cur, raised))
  /\ UNCHANGED <<agentvars, handlers, ev_task, ev_seq>>

InitEventQueue ==
  /\ InitAgent
  /\ pc = "idle"
  /\ max_steps = MaxSteps
  /\ tool_choices = "auto"
  /\ max_observe = DefaultMaxObserve

NextEvents ==
  \/ \E handler \in HandlerKinds : on(handler)
  \/ \E name \in EventNames : emit(name)
  \/ start
  \/ stop
  \/ Cancelled
  \/ ConsumerWake
  \/ \E raised \in BOOLEAN : HandlerDone(raised)

SpecEvents == InitEventQueue /\ [][NextEvents]_vars

\* the consumption loop at work: it wakes when the flag is set, and an
\* awaited handler comes back
Consume ==
  \/ ConsumerWake
  \/ \E raised \in BOOLEAN : HandlerDone(raised)

\* the queue with its loop never stopped
NextDrain ==
  \/ \E handler \in HandlerKinds : on(handler)
  \/ \E name \in EventNames : emit(name)
  \/ start
  \/ Consume

\* the event loop of asyncio resumes a task that is ready to run, and the
\* handlers return
SpecDrain == InitEventQueue /\ [][NextDrain]_vars /\ WF_vars(Consume)

TypeOK ==
  /\ state \in AgentStates
  /\ current_step \in 0..max_steps
  /\ pc \in {"idle", "loop", "llm", "dispatch", "tool", "record", "sandbox", "stuck"}
  /\ should_terminate \in BOOLEAN

\* ------------------------------------------------------------- claims
\* the events one transition puts on the queue
Emitted(name) == \E i \in (Len(queue) + 1)..Len(queue') : queue'[i].name = name

\* the tool Message of the k-th call of the batch sits at its place in Memory
Recorded(k) ==
  /\ act_base + k <= Len(memory)
  /\ memory[act_base + k].role = "tool"
  /\ memory[act_base + k].tool_call_id = tool_calls[k].id

IsExecuted(command) == \E k \in 1..Len(executed) : executed[k] = command

Dispatchable(command) ==
  command.name \in available_tools /\ ParseArguments(command.arguments)

NoToolMessageAdded ==
  \A i \in (Len(memory) + 1)..Len(memory') : memory'[i].role # "tool"

AssistantCount(mem) == Cardinality({i \in 1..Len(mem) : mem[i].role = "assistant"})

\* C1: whenever an invocation of run has ended, by return or by exception,
\* the agent's state is neither RUNNING nor ERROR.
C1_StateAfterRun ==
  (pc = "idle" /\ outcome \in {"returned", "raised"}) => state \notin {"RUNNING", "ERROR"}

C1_Witness ==
  pc = "idle" /\ outcome = "raised" /\ exception = "LLMError" /\ runs = 2 /\ state = "IDLE"

\* C2: when a Step raises (the step wrapper emits its error event), run
\* raises, and the events that follow are a state change announcing ERROR and
\* then a final state change, with the state reverted to the one held before
\* RUNNING.
C2_StepErrorPropagates ==
  [][\A i \in (Len(queue) + 1)..Len(queue') :
       queue'[i].name = STEP_ERROR =>
         /\ outcome' = "raised"
         /\ pc' = "idle"
         /\ Len(queue') = i + 2
         /\ queue'[i + 1].name = STATE_CHANGE
         /\ queue'[i + 1].data[2] = "ERROR"
         /\ queue'[i + 2].name = STATE_CHANGE
         /\ queue'[i + 2].data[2] = previous_state
         /\ state' = previous_state
         /\ state' = "IDLE"]_vars

C2_Witness ==
  /\ outcome = "raised"
  /\ exception # "SandboxError"
  /\ Len(queue) >= 3
  /\ queue[Len(queue) - 2].name = STEP_ERROR
  /\ queue[Len(queue) - 1].data = <<"ERROR", "ERROR">>
  /\ queue[Len(queue)].data = <<"IDLE", "IDLE">>

\* C3: an invocation of run made while the state is not IDLE is rejected and
\* leaves Memory, state, step counter and event queue as they were; a run is
\* accepted only from IDLE.
C3_RejectedRunNoEffect ==
  [][/\ (rejected' /\ ~rejected) =>
          (state # "IDLE" /\ UNCHANGED <<memory, state, current_step, queue>>)
     /\ (runs' # runs) => state = "IDLE"]_vars

C3_Witness == rejected /\ pc = "tool" /\ state = "FINISHED" /\ queue # <<>>

\* C4: while Act works through a batch and once it is done, the tool Messages
\* appended since Act began are exactly those of the calls processed, in the
\* order of the calls, each with the id of its call; error observations too.
C4_DispatchOrder ==
  /\ pc \in {"dispatch", "tool"} =>
       /\ Len(memory) = act_base + cmd_idx - 1
       /\ \A k \in 1..(cmd_idx - 1) : Recorded(k)
  /\ pc = "loop" =>
       /\ Len(memory) = act_base + Len(tool_calls)
       /\ \A k \in 1..Len(tool_calls) : Recorded(k)

C4_Witness ==
  /\ pc = "loop"
  /\ Len(tool_calls) = 2
  /\ tool_calls[1].name = GHOST
  /\ tool_calls[2].arguments = ARGS_MALFORMED
  /\ Recorded(1) /\ Recorded(2)
  /\ memory[act_base + 1].tool_call_id # memory[act_base + 2].tool_call_id

\* C5: no run ends raising the parse error of an argument payload, and no
\* call with a malformed payload is handed to a tool.
C5_DispatchErrorsNotRaised ==
  /\ exception # "JSONDecodeError"
  /\ \A k \in 1..Len(executed) : ParseArguments(executed[k].arguments)

\* Act begins on an empty batch under the "required" policy
ActOnEmptyRequired ==
  tool_choices = "required" /\ tool_calls' = <<>> /\ Emitted(TOOL_START)

\* C6 as stated: Act on an empty batch under "required" leaves the state
\* RUNNING, appends no tool Message, and the run goes on to its next Step.
C6_Original ==
  [][ActOnEmptyRequired =>
       (state' = "RUNNING" /\ pc' = "loop" /\ outcome' = "none" /\ NoToolMessageAdded)]_vars

\* C6 amended: Act on an empty batch under "required" raises, no tool Message
\* is appended, the error leaves run with the state reverted to IDLE, and no
\* further Step of the run starts.
C6_EmptyRequiredRaises ==
  [][ActOnEmptyRequired =>
       /\ outcome' = "raised"
       /\ exception' = "ValueError"
       /\ pc' = "idle"
       /\ state' = "IDLE"
       /\ NoToolMessageAdded
       /\ Emitted(STEP_ERROR)]_vars

C6_Witness ==
  /\ tool_choices = "required"
  /\ outcome = "raised"
  /\ exception = "ValueError"
  /\ last_llm = "response"
  /\ tool_calls = <<>>

\* C7: when a batch holds a terminating call that was executed and, after it,
\* a non-terminating call, then once Act is over both observations are in
\* Memory and the later call was executed if it could be; and the loop check
\* that finds FINISHED leaves the loop.
C7_TerminatingBatch ==
  /\ [](\A i, j \in 1..Len(tool_calls) :
          (/\ i < j
           /\ _is_special_tool(tool_calls[i].name)
           /\ ~_is_special_tool(tool_calls[j].name)
           /\ IsExecuted(tool_calls[i])
           /\ pc \notin {"dispatch", "tool"})
          => /\ Recorded(i)
             /\ Recorded(j)
             /\ Dispatchable(tool_calls[j]) => IsExecuted(tool_calls[j]))
  /\ [][(pc = "loop" /\ state = "FINISHED") => pc' = "sandbox"]_vars
  /\ [][(pc \in {"dispatch", "tool"} /\ cmd_idx <= Len(tool_calls))
          => pc' \in {"dispatch", "tool"}]_vars

C7_Witness ==
  /\ pc = "sandbox"
  /\ Len(tool_calls) = 2
  /\ tool_calls[1].name = TERMINATE
  /\ tool_calls[2].name = BASH
  /\ IsExecuted(tool_calls[1]) /\ IsExecuted(tool_calls[2])
  /\ Recorded(1) /\ Recorded(2)
  /\ Len(results) = 1

\* C8: when the model call fails with a context-limit error, Think appends
\* exactly one assistant Message (the limit text), the state becomes FINISHED,
\* no exception leaves the Step, no further Step starts, and when the loop is
\* left the results hold an entry for that Step.
C8_ContextLimit ==
  /\ [][(pc = "llm" /\ pc' # "llm" /\ last_llm' = "limit") =>
          /\ AssistantCount(memory') = AssistantCount(memory) + 1
          /\ memory'[Len(memory) + 1] = assistant_message(TOKEN_LIMIT_TEXT)
          /\ state' = "FINISHED"
          /\ outcome' # "raised"]_vars
  /\ [][(pc = "loop" /\ last_llm = "limit") =>
          /\ pc' = "sandbox"
          /\ \E k \in 1..Len(results) :
               results[k].kind = "step" /\ results[k].step = current_step]_vars

\* C9: when the loop is left with the step counter at max_steps and the state
\* not FINISHED, the counter is reset to 0, the state is IDLE, the
\* max-steps-reached event is emitted and the results end with the
\* "Terminated: Reached max steps" line; a run that returns returns its results.
C9_MaxSteps ==
  /\ [][(pc = "loop" /\ pc' = "sandbox" /\ current_step >= max_steps
          /\ state # "FINISHED") =>
          /\ current_step' = 0
          /\ state' = "IDLE"
          /\ Emitted(STEP_MAX_REACHED)
          /\ results' = Append(results, TerminatedLine(max_steps))]_vars
  /\ [][(pc = "sandbox" /\ outcome' = "returned" /\ results # <<>>) =>
          returned' = results]_vars

C9_Witness ==
  /\ outcome = "returned"
  /\ Len(returned) = max_steps + 1
  /\ returned[max_steps].text = THINKING_COMPLETE
  /\ returned[max_steps + 1] = TerminatedLine(max_steps)
  /\ current_step = 0
  /\ state = "IDLE"

\* the content recorded for the k-th call of the current Act
RecordedContent(k) == memory[act_base + k].content

\* C10 as stated: for any max length M, an observation longer than M is
\* recorded with length exactly M, as a prefix of the observation.
C10_Original ==
  \A k \in 1..Len(observations) :
    Len(observations[k]) > max_observe =>
      /\ Len(RecordedContent(k)) = max_observe
      /\ RecordedContent(k) = SubSeq(observations[k], 1, max_observe)

\* C10 amended: for any max length M >= 1, an observation longer than M is
\* recorded with length exactly M, as a prefix of the observation.
C10_TruncationLaw ==
  \A k \in 1..Len(observations) :
    (max_observe >= 1 /\ Len(observations[k]) > max_observe) =>
      /\ Len(RecordedContent(k)) = max_observe
      /\ RecordedContent(k) = SubSeq(observations[k], 1, max_observe)

C10_Witness ==
  /\ max_observe = 2
  /\ \E k \in 1..Len(observations) :
       /\ Len(observations[k]) = 5
       /\ RecordedContent(k) = SubSeq(observations[k], 1, 2)

\* the contents of the assistant Messages of a Memory, oldest first
AssistantContents(mem) ==
  LET idx == {i \in 1..Len(mem) : mem[i].role = "assistant"}
      RECURSIVE Collect(_)
      Collect(i) == IF i > Len(mem) THEN <<>>
                    ELSE IF i \in idx THEN <<mem[i].content>> \o Collect(i + 1)
                    ELSE Collect(i + 1)
  IN Collect(1)

LastThreeAssistantIdentical(mem) ==
  LET a == AssistantContents(mem)
      n == Len(a)
  IN n >= 3 /\ a[n] = a[n - 1] /\ a[n - 1] = a[n - 2]

AllDistinctContent(mem) ==
  \A i, j \in 1..Len(mem) : i # j => mem[i].content # mem[j].content

\* the stuck check has run and found the agent stuck
StuckDetected == \E i \in 1..Len(queue) : queue[i].name = STATE_STUCK_DETECTED

\* C11 as stated: with threshold 2 the stuck check answers true on every
\* Memory whose last 3 assistant Messages have identical content, and false
\* on every Memory whose Messages all have distinct content.
C11_Original ==
  pc = "loop" =>
    /\ LastThreeAssistantIdentical(memory) => StuckDetected
    /\ AllDistinctContent(memory) => ~StuckDetected

\* C11 amended: with threshold 2 the stuck check answers true on every
\* Memory whose latest Message is an assistant Message with non-empty content
\* and whose last 3 assistant Messages have identical content, and false on
\* every Memory whose Messages all have distinct content.
C11_StuckDetection ==
  pc = "loop" =>
    /\ (/\ memory # <<>>
        /\ memory[Len(memory)].role = "assistant"
        /\ memory[Len(memory)].content # <<>>
        /\ LastThreeAssistantIdentical(memory)) => StuckDetected
    /\ AllDistinctContent(memory) => ~StuckDetected

C11_Witness ==
  /\ pc = "loop"
  /\ Len(memory) = 4
  /\ memory[1].role = "user"
  /\ \A i \in 2..4 : memory[i] = assistant_message(<<"thought">>)
  /\ StuckDetected
  /\ next_step_prompt = STUCK_PROMPT \o <<"\n">> \o NEXT_STEP_PROMPT

\* C12: under the tool-choice policy "none" no tool call of a model response
\* is executed and no tool-role Message is appended to Memory.
C12_NonePolicyDiscards ==
  tool_choices = "none" =>
    /\ executed = <<>>
    /\ \A i \in 1..Len(memory) : memory[i].role # "tool"

\* C13: no ToolCall is handed to a tool twice: the calls dispatched so far
\* have pairwise distinct ids, whatever happened to later model calls and
\* whether or not a termination is pending.
C13_NoDoubleExecution ==
  \A i, j \in 1..Len(executed) : i # j => executed[i].id # executed[j].id

\* C14: in every reachable state of a run each tool-role Message of Memory
\* has a tool_call_id carried by a ToolCall of an assistant Message at an
\* earlier position.
C14_ToolMessageReferences ==
  \A i \in 1..Len(memory) :
    memory[i].role = "tool" =>
      \E j \in 1..(i - 1) :
        /\ memory[j].role = "assistant"
        /\ \E k \in 1..Len(memory[j].tool_calls) :
             memory[j].tool_calls[k].id = memory[i].tool_call_id

\* C15: once the connection of a remote host has been closed none of its
\* tools is resolvable in the agent's registry, and no dispatch is routed to
\* a tool whose connection has already closed.
C15_ClosedHostNotResolvable ==
  /\ [](\A t \in proxies : t.session \in closed => t.name \notin available_tools)
  /\ [][(pc = "dispatch" /\ pc' = "tool" /\ IsProxyCall)
          => CurrentProxy.session \notin closed]_vars

\* the proxies a connected client registered in the agent's registry
RegisteredBy(client) ==
  {t \in proxies : t.client_id = client.client_id /\ t.session = client.session}

\* C16: disconnecting a host that is not connected (a second disconnect)
\* changes nothing, and disconnecting a connected host removes from the
\* registry exactly the tools that host had registered, no tool of another
\* host.
C16_DisconnectExact ==
  [][(mcp_ops' = mcp_ops + 1 /\ last_op'.op = "remove_client") =>
       IF HasClient(last_op'.client_id)
       THEN LET own == RegisteredBy(GetClient(last_op'.client_id))
            IN /\ proxies' = proxies \ own
               /\ available_tools' = available_tools \ {t.name : t \in own}
       ELSE UNCHANGED <<available_tools, proxies, mcp_clients, closed>>]_vars

\* the parts of C16 that need no deregistration: a second disconnect is a
\* no-op and a disconnect never removes a tool of another host
C16_Rest ==
  [][(mcp_ops' = mcp_ops + 1 /\ last_op'.op = "remove_client") =>
       IF HasClient(last_op'.client_id)
       THEN LET own == RegisteredBy(GetClient(last_op'.client_id))
            IN /\ proxies \ own \subseteq proxies'
               /\ mcp_clients' = mcp_clients \ {GetClient(last_op'.client_id)}
       ELSE UNCHANGED <<available_tools, proxies, mcp_clients, closed>>]_vars

\* C17: the composite names registered for two distinct client ids differ,
\* whatever tool names the hosts expose, and stripping the prefix of a
\* composite name yields the tool name the host exposed.
C17_CompositeNames ==
  /\ \A c1, c2 \in mcp_clients :
       c1.client_id # c2.client_id =>
         {t.name : t \in c1.tool_map} \cap {t.name : t \in c2.tool_map} = {}
  /\ \A c \in mcp_clients : {ServerToolName(t) : t \in c.tool_map} = c.exposed

\* stripping the prefix of a composite name yields the exposed tool name
C17_StripPrefix ==
  \A c \in mcp_clients : {ServerToolName(t) : t \in c.tool_map} = c.exposed

NOT_CONNECTED == <<"Error: ", "Not connected to MCP server">>
TRANSPORT_ERROR == <<"Error: ", "Error executing tool: ", "exception">>

\* C18: the call of a remote tool proxy never ends in the dispatcher's
\* exception branch and never ends the run: the dispatcher goes on with the
\* batch and records an observation of the proxy's result, which is the
\* error result when the proxy has no session or its connection is closed.
C18_ProxyNeverRaises ==
  [][(pc = "tool" /\ IsProxyCall /\ pc' # "tool") =>
       LET name == tool_calls[cmd_idx].name
           content == memory'[Len(memory')].content
       IN /\ pc' = "dispatch"
          /\ outcome' = outcome
          /\ Len(memory') = Len(memory) + 1
          /\ memory'[Len(memory')].role = "tool"
          /\ memory'[Len(memory')].tool_call_id = tool_calls[cmd_idx].id
          /\ content # ToolProblem(name)
          /\ \E output \in {NOT_CONNECTED, TRANSPORT_ERROR, <<"remote text">>,
                            <<"No output returned.">>} :
               content = ObservedOutput(name, output)
          /\ CurrentProxy.session = NoSession =>
               content = ObservedOutput(name, NOT_CONNECTED)
          /\ CurrentProxy.session \in closed =>
               content = ObservedOutput(name, TRANSPORT_ERROR)]_vars

C18_Witness ==
  /\ \E i \in 1..Len(memory) :
       /\ memory[i].role = "tool"
       /\ memory[i].content = ObservedOutput("c", NOT_CONNECTED)
  /\ \E i \in 1..Len(memory) :
       /\ memory[i].role = "tool"
       /\ memory[i].content = ObservedOutput("a-c", TRANSPORT_ERROR)
  /\ outcome = "returned"

\* an accepted invocation of run ends on this transition
RunEnds == outcome = "none" /\ outcome' \in {"returned", "raised"}

\* C19: every run ends out of the awaited sandbox cleanup, that is, the
\* cleanup has been invoked when the run returns and also when it raises
\* because a Step raised.
C19_CleanupEveryRun ==
  [][RunEnds => pc = "sandbox"]_vars

\* C20: whichever way the awaited sandbox cleanup ends, by returning or by
\* raising, run emits lifecycle-complete and returns the accumulated result.
C20_CleanupFailureNotMasking ==
  [][(pc = "sandbox" /\ pc' # "sandbox") =>
       /\ Emitted(LIFECYCLE_COMPLETE)
       /\ outcome' = "returned"
       /\ returned' = ResultText(results)]_vars

\* C21: when a run ends, by return or by exception, every remote host the
\* agent connected has been torn down: no client is left connected with an
\* open session.
C21_TeardownAtRunEnd ==
  [][RunEnds => \A c \in mcp_clients' : c.session \in closed']_vars

\* C22: events are delivered in emit order: every logged handler invocation
\* of an earlier event, its end included, comes before the start of any
\* handler invocation of a later event, and a started invocation is ended
\* before another one starts.
C22_FifoDelivery ==
  /\ \A i, j \in DOMAIN delivered :
       (delivered[j].phase = "start" /\ delivered[i].seq < delivered[j].seq)
         => i < j
  /\ \A i \in DOMAIN delivered :
       (delivered[i].phase = "start" /\ i < Len(delivered))
         => /\ delivered[i + 1].phase # "start"
            /\ delivered[i + 1].seq = delivered[i].seq
            /\ delivered[i + 1].idx = delivered[i].idx

\* two handlers have handled event 1, and event 2, emitted while a handler
\* of event 1 was running, has been handled after them
C22_Witness ==
  /\ \E i, j \in DOMAIN delivered :
       /\ i < j
       /\ delivered[i].seq = 1 /\ delivered[i].idx = 1 /\ delivered[i].phase = "end"
       /\ delivered[j].seq = 1 /\ delivered[j].idx = 2 /\ delivered[j].phase = "end"
  /\ \E k \in DOMAIN delivered :
       delivered[k].seq = 2 /\ delivered[k].during = 1 /\ delivered[k].phase = "end"

\* the queued events some handler matches, by position
Deliverable == {n \in DOMAIN queue : MatchingAfter(handlers, queue[n].name, 0) # {}}

HandlerRaised ==
  /\ Len(delivered') > Len(delivered)
  /\ delivered'[Len(delivered) + 1].phase = "error"

\* C23: when a handler raises, the loop keeps running and the next
\* invocation is the one that was due anyway: the next handler matching the
\* same event if there is one, otherwise the first matching handler of the
\* first queued event that has one.
C23_HandlerErrorIsolated ==
  [][HandlerRaised =>
       LET k == Len(delivered) + 1
           rest == MatchingAfter(handlers, ev_cur.name, ev_cur.idx)
       IN /\ ev_task' = "running"
          /\ rest # {} =>
               /\ Len(delivered') = k + 1
               /\ delivered'[k + 1].phase = "start"
               /\ delivered'[k + 1].seq = EventSeq(ev_cur)
               /\ delivered'[k + 1].idx = SetMin(rest)
          /\ (rest = {} /\ Deliverable # {}) =>
               LET e == queue[SetMin(Deliverable)]
               IN /\ Len(delivered') = k + 1
                  /\ delivered'[k + 1].phase = "start"
                  /\ delivered'[k + 1].seq = EventSeq(e)
                  /\ delivered'[k + 1].idx = SetMin(MatchingAfter(handlers, e.name, 0))]_vars

\* a handler raised, the next handler of the same event ran to its end, and
\* a later event was handled to its end
C23_Witness ==
  \E k, m \in DOMAIN delivered :
    /\ k + 2 <= Len(delivered) /\ k + 2 < m
    /\ delivered[k].phase = "error"
    /\ delivered[k + 1].seq = delivered[k].seq
    /\ delivered[k + 1].idx > delivered[k].idx
    /\ delivered[k + 2].phase = "end"
    /\ delivered[m].seq > delivered[k].seq
    /\ delivered[m].phase = "end"

\* the queue holds the events put and not yet taken, oldest first
Buffered ==
  /\ Len(queue) = ev_seq - ev_taken
  /\ \A n \in DOMAIN queue : EventSeq(queue[n]) = ev_taken + n

\* while no loop is running an emit appends its event and nothing leaves
\* the queue
IdleStep ==
  ev_task \in {"none", "done"} =>
    /\ ev_taken' = ev_taken
    /\ Len(queue') >= Len(queue)
    /\ SubSeq(queue', 1, Len(queue)) = queue
    /\ ev_seq' # ev_seq =>
         /\ Len(queue') = Len(queue) + 1
         /\ ev_seq' = EventSeq(queue'[Len(queue')])

InsideLoop == pc \in {"llm", "dispatch", "tool"}

\* an invocation of run is rejected while the run in progress is inside its loop
RejectedInsideLoop == InsideLoop /\ rejected' /\ ~rejected

\* C25: wherever a run is inside its loop the state is not IDLE, so that the
\* state check of run rejects any other invocation arriving there, and a
\* rejected invocation starts no Step: step counter, position of the run in
\* progress, model calls and accepted runs stay as they were.
C25_NoConcurrentSteps ==
  /\ [](InsideLoop => state \in {"RUNNING", "FINISHED"})
  /\ [][RejectedInsideLoop =>
          UNCHANGED <<current_step, pc, llm_calls, runs, cmd_idx, memory>>]_vars

\* a second invocation was rejected while the first run awaits the model in
\* its second Step
C25_Witness ==
  rejected /\ pc = "llm" /\ state = "RUNNING" /\ current_step = 2 /\ runs = 1

\* a Step is started: the loop increments the step counter
StepStarted == current_step' = current_step + 1

\* C26: once a termination has been signalled the run starts no further
\* Step.
C26_TerminateStopsSteps == [][should_terminate => ~StepStarted]_vars

\* how many events of that name the queue holds
CountEvents(q, name) == Cardinality({i \in DOMAIN q : q[i].name = name})

\* execute_tool has gone through the whole batch
BatchDone == pc # "tool" /\ cmd_idx > Len(tool_calls)

\* C27: when Act has gone through a batch, one execute-start and one
\* execute-complete event have been emitted for every call of the batch,
\* whether the call ended in an observation or in an error.
C27_ExecuteEventsPaired ==
  BatchDone =>
    /\ CountEvents(queue, TOOL_EXECUTE_START) = Len(tool_calls)
    /\ CountEvents(queue, TOOL_EXECUTE_COMPLETE) = Len(tool_calls)

\* the tool Message of some terminating call of the batch is in Memory
TerminatingCallRecorded ==
  \E k \in 1..Len(tool_calls) : _is_special_tool(tool_calls[k].name) /\ Recorded(k)

\* C28: during Act the state is FINISHED only when the tool Message of a
\* terminating call of the batch is already in Memory.
C28_FinishedAfterRecord == state = "FINISHED" => TerminatingCallRecorded

\* the while loop of run is left with its condition false
LoopLeft == pc = "loop" /\ pc' = "sandbox"

\* C29: when the loop of run is left with the state FINISHED there is no
\* max-steps handling: the step counter is not reset, no max-steps-reached
\* event is emitted and the results get no termination notice, at whatever
\* step the run finished.
C29_MaxStepsOnlyWhenNotFinished ==
  [][(LoopLeft /\ state = "FINISHED") =>
       /\ current_step' = current_step
       /\ ~Emitted(STEP_MAX_REACHED)
       /\ results' = results]_vars

\* the batch holds a call naming a terminating tool
HasTerminatingCall ==
  \E k \in 1..Len(tool_calls) : _is_special_tool(tool_calls[k].name)

\* C30: once Act has gone through a batch holding a call that names a
\* terminating tool the state is FINISHED, whether that call returned,
\* raised, or never reached the tool.
C30_TerminatingCallFinishes ==
  (BatchDone /\ HasTerminatingCall) => state = "FINISHED"

\* run returns: the sandbox cleanup is over and the result text is built
RunReturns == outcome = "none" /\ outcome' = "returned"

IsStepLine(line) == line.kind = "step"

\* C31: run returns the "No steps executed" sentinel whenever the loop
\* produced no per-step result, and otherwise exactly the per-step results
\* in step order.
C31_ResultText ==
  [][RunReturns =>
       LET steps == SelectSeq(results, IsStepLine)
       IN returned' = IF steps = <<>> THEN <<NoStepsLine>> ELSE steps]_vars

\* a Step in which Act ran on an empty batch has returned its result
ActOnEmptyBatch ==
  /\ pc = "llm" /\ pc' = "loop"
  /\ Emitted(ACT_START)
  /\ tool_calls' = <<>>
  /\ tool_choices # "required"

\* C32: when Act runs with no tool calls under a policy other than
\* required, the result of the Step is exactly the content of the last
\* Message of Memory, or the sentinel when that content is empty, and no tool
\* Message is appended.
C32_EmptyBatchResult ==
  [][ActOnEmptyBatch =>
       LET last == memory'[Len(memory')].content
       IN /\ results'[Len(results')].text = (IF last # <<>> THEN last ELSE NO_CONTENT)
          /\ \A i \in (Len(memory) + 1)..Len(memory') : memory'[i].role # "tool"]_vars

\* the Steps the current run has started
StepsOfRun ==
  Len(SelectSeq(results, IsStepLine))
    + (IF pc \in {"llm", "dispatch", "tool"} THEN 1 ELSE 0)

WithinBudget ==
  /\ current_step >= 0 /\ current_step <= max_steps
  /\ StepsOfRun <= max_steps
  /\ (pc = "idle" /\ runs > 0) => outcome \in {"returned", "raised"}

C34_FreshBudget == (pc = "idle" /\ state = "IDLE") => current_step = 0

\* C35: when a run ends, returned or raised, every lifecycle-start event
\* emitted so far has its lifecycle-complete event.
C35_LifecycleComplete ==
  [][RunEnds =>
       CountEvents(queue', LIFECYCLE_COMPLETE) = CountEvents(queue', LIFECYCLE_START)]_vars

IsStateChange(e) == e.name = STATE_CHANGE

\* the state-change events a step adds to the queue, in order
StateChangesAdded ==
  SelectSeq(SubSeq(queue', Len(queue) + 1, Len(queue')), IsStateChange)

\* C36: every state-change event carries the state held right before the
\* change as old_state and the state held right after it as new_state: on the
\* entry into RUNNING, on the transition to ERROR and on the final revert.
C36_StateChangeDescribes ==
  [][LET ev == StateChangesAdded
     IN /\ (runs' # runs) => (Len(ev) = 1 /\ ev[1].data = <<state, state'>>)
        /\ LoopLeft =>
             /\ Len(ev) = 1
             /\ ev[1].data = <<IF MaxStepsReached(current_step) THEN "IDLE" ELSE state,
                               state'>>
        /\ (outcome = "none" /\ outcome' = "raised" /\ pc # "sandbox") =>
             /\ Len(ev) = 2
             /\ ev[1].data[1] \in {"RUNNING", "FINISHED"}
             /\ ev[1].data[2] = "ERROR"
             /\ ev[2].data = <<"ERROR", state'>>]_vars

\* the text begins with the avoid-repeating instruction
BeginsWithStuckPrompt(text) ==
  /\ Len(text) >= Len(STUCK_PROMPT)
  /\ SubSeq(text, 1, Len(STUCK_PROMPT)) = STUCK_PROMPT

\* C37: once a stuck loop has been handled, the guidance Message the next
\* Think appends to Memory begins with the avoid-repeating instruction.
C37_StuckGuidanceReachesModel ==
  [][(StepStarted /\ BeginsWithStuckPrompt(next_step_prompt)) =>
       /\ Len(memory') = Len(memory) + 1
       /\ memory'[Len(memory')].role = "user"
       /\ BeginsWithStuckPrompt(memory'[Len(memory')].content)]_vars

\* C38: while the consumption loop runs and the handlers return, each
\* enqueued event is eventually dequeued, whenever it was emitted: the n-th
\* event put in the queue leads to the n-th event being taken from it.
C38_NoStrandedEvent ==
  \A n \in 1..MaxEvents :
    (ev_task = "running" /\ ev_seq >= n) ~> (ev_taken >= n)

\* an event emitted while a handler ran has been offered to a handler
EmittedInsideHandlerTaken ==
  /\ ev_task = "running"
  /\ \E i \in DOMAIN delivered :
       delivered[i].phase = "start" /\ delivered[i].during # 0

\* an event emitted after a drain had cleared the flag has been offered to a
\* handler, and nothing is left in the queue
C38_Witness ==
  /\ ev_task = "running"
  /\ queue = <<>>
  /\ ev_taken = ev_seq
  /\ \E i, j \in DOMAIN delivered :
       /\ i < j
       /\ delivered[i].phase \in {"end", "error"}
       /\ delivered[j].phase = "start"
       /\ delivered[j].seq > delivered[i].seq
       /\ delivered[j].during = 0

\* the tools another agent instance resolves: its helper was given no
\* collection of its own, so it reads the class attribute
OtherAgentTools == class_tools

\* C39: registering a tool, or the tools of a remote host, through this
\* agent's helper never changes the set of tools another agent instance
\* resolves.
C39_RegistryPerAgent ==
  [][OtherAgentTools' = OtherAgentTools]_vars

\* a disconnect_all of the extension has just ended
ExtensionDisconnectedAll == last_op'.op = "disconnect_all" /\ mcp_ops' = mcp_ops + 1
\* a disconnect_all of the sandbox host has just ended
HostDisconnectedAll == host_op'.op = "disconnect_all" /\ mcp_ops' = mcp_ops + 1

\* C40: after disconnect_all on a gateway no client remains registered:
\* list_clients is empty and the count is 0, and the add of a client id that
\* follows is not refused as a duplicate.
C40_DisconnectAllEmpties ==
  [][/\ ExtensionDisconnectedAll => (list_clients' = {} /\ get_client_count' = 0)
     /\ HostDisconnectedAll => (host_list_clients' = {} /\ host_get_client_count' = 0)
     /\ (last_op.op = "disconnect_all" /\ last_op'.op = "add_mcp")
          => last_op'.result # "ValueError"
     /\ (host_op.op = "disconnect_all" /\ host_op'.op = "add_stdio_client")
          => host_op'.result # "ValueError"]_vars

\* the extension alone: its disconnect_all leaves no client registered
ExtensionDisconnectAllEmpties ==
  [][/\ ExtensionDisconnectedAll => (list_clients' = {} /\ get_client_count' = 0)
     /\ (last_op.op = "disconnect_all" /\ last_op'.op = "add_mcp")
          => last_op'.result # "ValueError"]_vars
====
